---- MODULE Spec2Model ----
(***************************************************************************)
(* kboot: host-side coordination of kernel self-test rounds.               *)
(*                                                                         *)
(* One invocation of the runner (lib.rs `run`) appends its lifecycle       *)
(* markers to the shared event log, builds the image, runs the VM, ingests *)
(* the capture file into a report and, on the last group of a round,       *)
(* archives the reports and appends the round-end marker.                  *)
(***************************************************************************)
EXTENDS Integers, Sequences, FiniteSets, TLC

VARIABLES
    log,            \* .build/event.log.json: the sequence of its lines
    manifest,       \* Cargo.toml of the workspace root, as get_total_test_groups reads it
    pc,             \* position of the running invocation inside lib.rs `run`
    uuid,           \* crate::UUID of the running invocation (0: none started yet)
    flags,          \* args of the running invocation: is_test, no_ktest, clean
    start_event,    \* the TestGroupStartedEvent returned by write_start_events
    testing_exists, \* does .build/testing exist
    testing_files,  \* the files of .build/testing
    archives,       \* the .build/testing-<millis> directories, oldest first
    capture,        \* lines of tests-<uuid>.json, the running invocation's capture file
    TEST_GROUP,     \* ktest.rs static TEST_GROUP of the running process
    USE_KVIEW,      \* ktest.rs static USE_KVIEW of the running process
    round,          \* history: number of TestRoundStartedEvent lines ever appended
    everAborted,    \* history: some invocation stopped before write_end_events
    faults,         \* history: number of steps that failed for an outside reason
    op,             \* history: the step taken last and how it ended
    report,         \* what to_writer_pretty wrote to the report file last persisted
    reloaded,       \* the TestGroup a reader of that file deserialized
    procs           \* overlapping invocations: where each is inside write_start_events

vars == << log, manifest, pc, uuid, flags, start_event, testing_exists,
           testing_files, archives, capture, TEST_GROUP, USE_KVIEW, round,
           everAborted, faults, op, report, reloaded, procs >>

\* the variables no step of a single, non-overlapping invocation touches
aside == << report, reloaded, procs >>

(***************************************************************************)
(* Bounds of the model.                                                    *)
(***************************************************************************)
MaxInvocations == 3     \* invocations of the runner in one behaviour
MaxMembers == 1         \* workspace members listed in Cargo.toml
MaxFaults == 1          \* failing file, build, VM or viewer calls in one behaviour

(***************************************************************************)
(* Event log lines (event.rs, Event::to_json).  A line is kept as what the *)
(* scans can observe of it: whether it parses as JSON, the event names its *)
(* text contains (the scans use str::contains on the raw line), and its    *)
(* current_test_group / total_test_groups fields (-1: absent or not u64).  *)
(***************************************************************************)
RoundStartedName == "TestRoundStartedEvent"
RoundEndedName == "TestRoundEndedEvent"
GroupStartedName == "TestGroupStartedEvent"
Markers == {RoundStartedName, RoundEndedName, GroupStartedName}

TestRoundStartedEvent ==
    [json |-> TRUE, event |-> RoundStartedName, text |-> {RoundStartedName},
     current_test_group |-> -1, total_test_groups |-> -1]

TestRoundEndedEvent ==
    [json |-> TRUE, event |-> RoundEndedName, text |-> {RoundEndedName},
     current_test_group |-> -1, total_test_groups |-> -1]

TestGroupStartedEvent(current, total) ==
    [json |-> TRUE, event |-> GroupStartedName, text |-> {GroupStartedName},
     current_test_group |-> current, total_test_groups |-> total]

\* str::contains(marker) on the raw line
Contains(line, marker) == marker \in line.text

\* The file is opened for writing without the append option.
write_event_truncating(lines, event) == << event >>

\* write_event: append one line to the log
write_event(lines, event) == Append(lines, event)

(***************************************************************************)
(* Backward scans of the log.                                              *)
(***************************************************************************)
Panicked == -1  \* the scan panicked (unwrap on an Err or a None)

RECURSIVE ScanGroup(_, _)
ScanGroup(lines, i) ==
    IF i = 0 THEN 0
    ELSE IF Contains(lines[i], RoundEndedName) THEN 0
    ELSE IF Contains(lines[i], GroupStartedName)
         THEN IF ~lines[i].json \/ lines[i].current_test_group < 0
              THEN Panicked
              ELSE lines[i].current_test_group + 1
    ELSE ScanGroup(lines, i - 1)

\* The scan does not stop at the end of the previous round.
RECURSIVE ScanGroupNoReset(_, _)
ScanGroupNoReset(lines, i) ==
    IF i = 0 THEN 0
    ELSE IF Contains(lines[i], GroupStartedName)
         THEN IF ~lines[i].json \/ lines[i].current_test_group < 0
              THEN Panicked
              ELSE lines[i].current_test_group + 1
    ELSE ScanGroupNoReset(lines, i - 1)

get_current_test_group_no_reset(lines) == ScanGroupNoReset(lines, Len(lines))

\* The index of the last group is returned as it is, not the one after it.
get_current_test_group_no_step(lines) ==
    IF ScanGroup(lines, Len(lines)) > 0 THEN ScanGroup(lines, Len(lines)) - 1
    ELSE ScanGroup(lines, Len(lines))

\* Groups are counted from one.
get_current_test_group_one_based(lines) ==
    IF ScanGroup(lines, Len(lines)) = Panicked THEN Panicked
    ELSE ScanGroup(lines, Len(lines)) + 1

get_current_test_group(lines) == ScanGroup(lines, Len(lines))

RECURSIVE ScanRound(_, _)
ScanRound(lines, i) ==
    IF i = 0 THEN TRUE
    ELSE IF Contains(lines[i], RoundEndedName) THEN TRUE
    ELSE IF Contains(lines[i], RoundStartedName) THEN FALSE
    ELSE ScanRound(lines, i - 1)

\* Every invocation is taken to start a round.
is_start_of_test_round_always(lines) == TRUE

is_start_of_test_round(lines) == ScanRound(lines, Len(lines))

\* Cargo.toml: is there a [workspace] table, and how many entries its members
\* array lists (-1: no members array)
Manifests ==
    {[is_workspace |-> FALSE, members |-> -1]}
        \cup [is_workspace : {TRUE}, members : -1..MaxMembers]

get_total_test_groups(m) ==
    IF m.is_workspace
    THEN IF m.members < 0 THEN Panicked ELSE m.members + 1
    ELSE 2

(***************************************************************************)
(* JSON values and capture lines (ktest.rs).  Strings are sequences of     *)
(* characters, so that test names can be split at "::".                    *)
(***************************************************************************)
JsonNull == [kind |-> "null", s |-> << >>, n |-> 0, b |-> FALSE]
JsonStr(s) == [kind |-> "string", s |-> s, n |-> 0, b |-> FALSE]
JsonNum(n) == [kind |-> "number", s |-> << >>, n |-> n, b |-> FALSE]
JsonBool(b) == [kind |-> "bool", s |-> << >>, n |-> 0, b |-> b]

\* a capture line: does it parse (serde_json::from_str), and its members
NotJson == [json |-> FALSE, obj |-> << >>]
JsonObject(obj) == [json |-> TRUE, obj |-> obj]

\* serde_json::Value::get(key).is_some()
Has(line, key) == key \in DOMAIN line.obj
\* .get(key).and_then(|v| v.as_str()) and friends
IsStr(line, key) == Has(line, key) /\ line.obj[key].kind = "string"
IsU64(line, key) ==
    Has(line, key) /\ line.obj[key].kind = "number" /\ line.obj[key].n >= 0
IsBool(line, key) == Has(line, key) /\ line.obj[key].kind = "bool"

\* The name is split at the first "::" (splitn for rsplitn).
FirstSeparator(name) ==
    LET hits == {i \in 1..(Len(name) - 1) : name[i] = ":" /\ name[i + 1] = ":"}
    IN  IF hits = {} THEN 0 ELSE CHOOSE i \in hits : \A j \in hits : i <= j

\* position of the last "::" in name, 0 when there is none (rsplitn(2, "::"))
LastSeparator(name) ==
    LET hits == {i \in 1..(Len(name) - 1) : name[i] = ":" /\ name[i + 1] = ":"}
    IN  IF hits = {} THEN 0 ELSE CHOOSE i \in hits : \A j \in hits : j <= i

Unknown == << "u", "n", "k", "n", "o", "w", "n" >>

module_from_name(name) ==
    IF LastSeparator(name) # 0
    THEN SubSeq(name, 1, LastSeparator(name) - 1)
    ELSE Unknown

function_from_name(name) ==
    IF LastSeparator(name) # 0
    THEN SubSeq(name, LastSeparator(name) + 2, Len(name))
    ELSE name

\* the statics of a fresh process: TEST_GROUP and USE_KVIEW not yet set
NoTestGroup ==
    [set |-> FALSE, test_group |-> << >>,
     summary |-> [total |-> 0, passed |-> 0, failed |-> 0, ignored |-> 0],
     modules |-> << >>]
NoUseKview == [set |-> FALSE, value |-> FALSE]

\* process_test_group_json: Err unless test_group is a string and test_count a u64
test_group_json_ok(line) == IsStr(line, "test_group") /\ IsU64(line, "test_count")

process_test_group_json(line) ==
    [group |-> [set |-> TRUE, test_group |-> line.obj["test_group"].s,
                summary |-> [total |-> line.obj["test_count"].n, passed |-> 0,
                             failed |-> 0, ignored |-> 0],
                modules |-> << >>],
     use_kview |-> IF IsBool(line, "use_kview") THEN line.obj["use_kview"].b
                   ELSE FALSE]

\* process_test_json: Err unless test, result are strings and cycle_count a u64
test_json_ok(line) ==
    IsStr(line, "test") /\ IsStr(line, "result") /\ IsU64(line, "cycle_count")

process_test_json(line) ==
    [test |-> line.obj["test"].s,
     result |-> line.obj["result"].s,
     cycle_count |-> line.obj["cycle_count"].n,
     location |-> IF IsStr(line, "location") THEN << line.obj["location"].s >>
                  ELSE << >>,
     message |-> IF IsStr(line, "message") THEN << line.obj["message"].s >>
                 ELSE << >>]

\* Every result opens a bucket of its own.
push_test_new_bucket(modules, test) ==
    Append(modules, [module |-> module_from_name(test.test),
                     tests |-> << [test EXCEPT !.test = function_from_name(test.test)] >>])

\* A result for a module that has a bucket takes the place of what is in it.
push_test_replace(modules, test) ==
    LET module_name == module_from_name(test.test)
        t == [test EXCEPT !.test = function_from_name(test.test)]
        found == {i \in 1..Len(modules) : modules[i].module = module_name}
    IN  IF found # {}
        THEN LET i == CHOOSE k \in found : \A j \in found : k <= j
             IN  [modules EXCEPT ![i].tests = << t >>]
        ELSE Append(modules, [module |-> module_name, tests |-> << t >>])

\* the bucket push of process_json_line (ktest.rs 92-102)
push_test(modules, test) ==
    LET module_name == module_from_name(test.test)
        t == [test EXCEPT !.test = function_from_name(test.test)]
        found == {i \in 1..Len(modules) : modules[i].module = module_name}
    IN  IF found # {}
        THEN LET i == CHOOSE k \in found : \A j \in found : k <= j
             IN  [modules EXCEPT ![i].tests = Append(@, t)]
        ELSE Append(modules, [module |-> module_name, tests |-> << t >>])

\* process_json_line on the statics st = [ok, group, kview]; ok = FALSE is Err
process_json_line(st, line) ==
    IF ~line.json THEN [st EXCEPT !.ok = FALSE]
    ELSE IF Has(line, "test_group")
    THEN IF ~test_group_json_ok(line) \/ st.group.set
         THEN [st EXCEPT !.ok = FALSE]
         ELSE IF st.kview.set
         THEN [st EXCEPT !.ok = FALSE,
                         !.group = process_test_group_json(line).group]
         ELSE [st EXCEPT !.group = process_test_group_json(line).group,
                         !.kview = [set |-> TRUE,
                                    value |-> process_test_group_json(line).use_kview]]
    ELSE IF Has(line, "test")
    THEN IF ~test_json_ok(line) \/ ~st.group.set
         THEN [st EXCEPT !.ok = FALSE]
         ELSE [st EXCEPT !.group.modules = push_test(@, process_test_json(line))]
    ELSE st

\* the read loop of process_test_results (ktest.rs 37-41): stops at the first Err
RECURSIVE read_lines(_, _, _)
read_lines(st, lines, i) ==
    IF i > Len(lines) \/ ~st.ok THEN st
    ELSE read_lines(process_json_line(st, lines[i]), lines, i + 1)

Pass == << "p", "a", "s", "s" >>
Fail == << "f", "a", "i", "l" >>

\* Whatever has not failed counts as passed.
RECURSIVE count_result_not_failed(_, _)
count_result_not_failed(modules, r) ==
    IF modules = << >> THEN 0
    ELSE Cardinality({i \in 1..Len(Head(modules).tests) :
                        IF r = Pass THEN Head(modules).tests[i].result # Fail
                        ELSE Head(modules).tests[i].result = r})
         + count_result_not_failed(Tail(modules), r)

\* number of tests of all modules whose result is r
RECURSIVE count_result(_, _)
count_result(modules, r) ==
    IF modules = << >> THEN 0
    ELSE Cardinality({i \in 1..Len(Head(modules).tests) :
                        Head(modules).tests[i].result = r})
         + count_result(Tail(modules), r)

saturating_sub(a, b) == IF a >= b THEN a - b ELSE 0

\* The failed tests are left out of the subtraction.
process_summary_passed_only(group) ==
    LET passed == count_result(group.modules, Pass)
        failed == count_result(group.modules, Fail)
    IN  [group EXCEPT !.summary.passed = passed,
                      !.summary.failed = failed,
                      !.summary.ignored =
                          saturating_sub(group.summary.total, passed)]

\* process_summary on a TEST_GROUP that is set (Err when it is not)
process_summary(group) ==
    LET passed == count_result(group.modules, Pass)
        failed == count_result(group.modules, Fail)
    IN  [group EXCEPT !.summary.passed = passed,
                      !.summary.failed = failed,
                      !.summary.ignored =
                          saturating_sub(group.summary.total, passed + failed)]

(***************************************************************************)
(* The report file (ktest.rs 233-264, 52-54).  serde writes a struct as an *)
(* object with one member per field, a Vec as an array, a u64 as a number; *)
(* an Option that is None is left out (skip_serializing_if) and a member   *)
(* that is missing or null is read back as None.  The document is kept as  *)
(* the tree of its values, whitespace aside.  summary.duration, a u64 like *)
(* summary.total, is not part of the model's TestGroup.                    *)
(***************************************************************************)
JsonArr(items) == [kind |-> "array", items |-> items]
JsonMap(members) == [kind |-> "object", members |-> members]
NoDocument == JsonNull

\* the TestGroup inside the static, once it is set
TestGroupValue(group) ==
    [test_group |-> group.test_group, summary |-> group.summary,
     modules |-> group.modules]
NoTestGroupValue == TestGroupValue(NoTestGroup)

\* The message is never written.
serialize_test_no_message(t) ==
    LET base == ("test" :> JsonStr(t.test)) @@ ("result" :> JsonStr(t.result))
                @@ ("cycle_count" :> JsonNum(t.cycle_count))
    IN  JsonMap(IF t.location = << >> THEN base
                ELSE base @@ ("location" :> JsonStr(t.location[1])))

\* Serialize for TestResult
serialize_test(t) ==
    LET base == ("test" :> JsonStr(t.test)) @@ ("result" :> JsonStr(t.result))
                @@ ("cycle_count" :> JsonNum(t.cycle_count))
        loc == IF t.location = << >> THEN base
               ELSE base @@ ("location" :> JsonStr(t.location[1]))
    IN  JsonMap(IF t.message = << >> THEN loc
                ELSE loc @@ ("message" :> JsonStr(t.message[1])))

\* Serialize for TestModule
serialize_module(m) ==
    JsonMap(("module" :> JsonStr(m.module))
            @@ ("tests" :> JsonArr([i \in 1..Len(m.tests) |->
                                       serialize_test(m.tests[i])])))

\* Serialize for TestSummary
serialize_summary(sm) ==
    JsonMap(("total" :> JsonNum(sm.total)) @@ ("passed" :> JsonNum(sm.passed))
            @@ ("failed" :> JsonNum(sm.failed))
            @@ ("ignored" :> JsonNum(sm.ignored)))

\* serde_json::to_writer_pretty(&file, &*test_group)
serialize(g) ==
    JsonMap(("test_group" :> JsonStr(g.test_group))
            @@ ("summary" :> serialize_summary(g.summary))
            @@ ("modules" :> JsonArr([i \in 1..Len(g.modules) |->
                                         serialize_module(g.modules[i])])))

\* Deserialize for Option<String>
deserialize_option(members, key) ==
    IF key \in DOMAIN members /\ members[key].kind = "string"
    THEN << members[key].s >>
    ELSE << >>

\* Deserialize for TestResult
deserialize_test(v) ==
    [test |-> v.members["test"].s,
     result |-> v.members["result"].s,
     cycle_count |-> v.members["cycle_count"].n,
     location |-> deserialize_option(v.members, "location"),
     message |-> deserialize_option(v.members, "message")]

\* Deserialize for TestModule
deserialize_module(v) ==
    [module |-> v.members["module"].s,
     tests |-> [i \in 1..Len(v.members["tests"].items) |->
                   deserialize_test(v.members["tests"].items[i])]]

\* Deserialize for TestSummary
deserialize_summary(v) ==
    [total |-> v.members["total"].n, passed |-> v.members["passed"].n,
     failed |-> v.members["failed"].n, ignored |-> v.members["ignored"].n]

\* serde_json::from_reader::<TestGroup> on a document serialize wrote
deserialize(v) ==
    [test_group |-> v.members["test_group"].s,
     summary |-> deserialize_summary(v.members["summary"]),
     modules |-> [i \in 1..Len(v.members["modules"].items) |->
                     deserialize_module(v.members["modules"].items[i])]]

(***************************************************************************)
(* The coordinator's two writers (event.rs).                               *)
(***************************************************************************)
\* Where an access to the event log or the manifest fails (every such
\* failure is an unwrap, so the process panics there): nowhere; in the first
\* scan or the TestRoundStartedEvent write; in TestGroupStartedEvent::new or
\* the write of its line.
LogFailures == {"none", "round", "group"}

\* The group line is written before the round line.
write_start_events_group_first(lines, m, fail) ==
    LET is_start == is_start_of_test_round(lines)
        current == get_current_test_group(lines)
        total == get_total_test_groups(m)
        event == [current_test_group |-> current, total_test_groups |-> total]
        lines1 == write_event(lines, TestGroupStartedEvent(current, total))
    IN  IF fail # "none" \/ current = Panicked \/ total = Panicked
        THEN [ok |-> FALSE, log |-> lines, event |-> event, started |-> FALSE]
        ELSE [ok |-> TRUE,
              log |-> IF is_start THEN write_event(lines1, TestRoundStartedEvent)
                      ELSE lines1,
              event |-> event, started |-> is_start]

\* A failing access to the log is passed over and the writer goes on.
write_start_events_carry_on(lines, m, fail) ==
    LET is_start == is_start_of_test_round(lines)
        lines1 == IF is_start /\ fail # "round"
                  THEN write_event(lines, TestRoundStartedEvent)
                  ELSE lines
        current == get_current_test_group(lines1)
        total == get_total_test_groups(m)
        event == [current_test_group |-> current, total_test_groups |-> total]
    IN  IF current = Panicked \/ total = Panicked
        THEN [ok |-> FALSE, log |-> lines1, event |-> event, started |-> is_start]
        ELSE [ok |-> TRUE,
              log |-> write_event(lines1, TestGroupStartedEvent(current, total)),
              event |-> event, started |-> is_start /\ fail # "round"]

\* write_start_events: [ok, log, event, started] where ok = FALSE is a panic,
\* log the lines afterwards, event the descriptor returned, started whether
\* a TestRoundStartedEvent line was appended
write_start_events(lines, m, fail) ==
    LET is_start == is_start_of_test_round(lines)
        lines1 == IF is_start THEN write_event(lines, TestRoundStartedEvent)
                  ELSE lines
        current == get_current_test_group(lines1)
        total == get_total_test_groups(m)
        event == [current_test_group |-> current, total_test_groups |-> total]
    IN  IF fail = "round"
        THEN [ok |-> FALSE, log |-> lines, event |-> event, started |-> FALSE]
        ELSE IF fail = "group" \/ current = Panicked \/ total = Panicked
        THEN [ok |-> FALSE, log |-> lines1, event |-> event, started |-> is_start]
        ELSE [ok |-> TRUE,
              log |-> write_event(lines1, TestGroupStartedEvent(current, total)),
              event |-> event, started |-> is_start]

\* The group before the last is taken to be the last.
is_final_group_early(event) ==
    event.current_test_group + 2 >= event.total_test_groups

\* The last group is taken to be the one after the last.
is_final_group_late(event) ==
    event.current_test_group >= event.total_test_groups

\* the finality test shared by write_end_events and process_test_results
is_final_group(event) ==
    event.current_test_group + 1 >= event.total_test_groups

\* No round is ever ended.
write_end_events_never(lines, event) == lines

\* The round is ended only past the declared number of groups.
write_end_events_strict(lines, event) ==
    IF event.current_test_group + 1 > event.total_test_groups
    THEN write_event(lines, TestRoundEndedEvent)
    ELSE lines

\* write_end_events: the lines afterwards
write_end_events(lines, event) ==
    IF is_final_group(event) THEN write_event(lines, TestRoundEndedEvent)
    ELSE lines

(***************************************************************************)
(* Entries of .build/testing.  An entry is its name, tests-<uuid>.json for *)
(* a capture and tests-<stem>.json for a report, and what it holds.  by,   *)
(* round and index record the invocation that wrote it, the round it wrote *)
(* it in and its group index.  The directory is mounted into the container *)
(* of the VM, which may leave entries of its own there.                    *)
(***************************************************************************)
capture_name(u) == [uuid |-> u, stem |-> << >>, ext |-> "json"]
report_name(group) == [uuid |-> 0, stem |-> group.test_group, ext |-> "json"]

capture_file(u, r) ==
    [name |-> capture_name(u), kind |-> "capture", by |-> u, round |-> r,
     index |-> 0, complete |-> TRUE]

report_file(group, u, r, event, complete) ==
    [name |-> report_name(group), kind |-> "report", by |-> u, round |-> r,
     index |-> event.current_test_group, complete |-> complete]

\* what the container may leave in its /testing/logs volume besides the
\* capture: a file that is not *.json, a sub-directory
leftover_file ==
    [name |-> [uuid |-> 0, stem |-> << "q" >>, ext |-> "log"], kind |-> "other",
     by |-> 0, round |-> 0, index |-> 0, complete |-> TRUE]
leftover_dir ==
    [name |-> [uuid |-> 0, stem |-> << "d" >>, ext |-> ""], kind |-> "dir",
     by |-> 0, round |-> 0, index |-> 0, complete |-> TRUE]
Leftovers == {{}, {leftover_file}, {leftover_dir}}

\* path.is_file() && path.extension() == Some("json")
is_json_file(f) == f.kind # "dir" /\ f.name.ext = "json"

\* fs::File::create: the file of that name is created or truncated
create_file(files, f) == {g \in files : g.name # f.name} \cup {f}
\* fs::remove_file
remove_file(files, name) == {g \in files : g.name # name}
\* Path::exists
exists(files, name) == \E g \in files : g.name = name

(***************************************************************************)
(* The ingestion pipeline (ktest.rs).  fs is the part of .build it touches: *)
(* [exists, files] of .build/testing and the archives.                     *)
(***************************************************************************)
\* Where a filesystem or process call of process_test_results fails
IoFailures ==
    {"none", "open", "create", "write", "remove", "mkdir", "rename", "rmdir",
     "kview"}

new_archive(files, u, r) == [round |-> r, by |-> u, files |-> files]

\* the entries of the testing directory that process_final_json renames
json_files(files) == {f \in files : is_json_file(f)}

\* Only the reports are moved to the archive.
process_final_json_reports_only(fs, u, r, io, moved) ==
    IF io \in {"mkdir", "rename", "rmdir"} \/ ~fs.exists
    THEN [ok |-> FALSE, fs |-> fs, struck |-> io \in {"mkdir", "rename", "rmdir"}]
    ELSE [ok |-> TRUE,
          fs |-> [exists |-> FALSE, files |-> {},
                  archives |-> Append(fs.archives,
                                      new_archive({f \in fs.files : f.kind = "report"},
                                                  u, r))],
          struck |-> FALSE]

\* process_final_json: [ok, fs, struck]; moved are the files renamed before a
\* failing rename; struck tells whether the failure io was met.  The last
\* call, remove_dir_all, removes the directory with whatever is left in it.
process_final_json(fs, u, r, io, moved) ==
    IF io = "mkdir"
    THEN [ok |-> FALSE, fs |-> fs, struck |-> TRUE]
    ELSE IF ~fs.exists
    THEN [ok |-> FALSE,
          fs |-> [fs EXCEPT !.archives = Append(@, new_archive({}, u, r))],
          struck |-> FALSE]
    ELSE IF io = "rename" /\ moved \subseteq json_files(fs.files)
            /\ moved # json_files(fs.files)
    THEN [ok |-> FALSE,
          fs |-> [fs EXCEPT !.files = fs.files \ moved,
                            !.archives = Append(@, new_archive(moved, u, r))],
          struck |-> TRUE]
    ELSE IF io = "rmdir"
    THEN [ok |-> FALSE,
          fs |-> [fs EXCEPT !.files = fs.files \ json_files(fs.files),
                            !.archives = Append(@, new_archive(json_files(fs.files),
                                                               u, r))],
          struck |-> TRUE]
    ELSE [ok |-> TRUE,
          fs |-> [exists |-> FALSE, files |-> {},
                  archives |-> Append(fs.archives,
                                      new_archive(json_files(fs.files), u, r))],
          struck |-> FALSE]

\* A test group is there before any line is read.
fresh_statics_preset ==
    [ok |-> TRUE, group |-> [NoTestGroup EXCEPT !.set = TRUE], kview |-> NoUseKview]

\* the statics before the first line is read
fresh_statics == [ok |-> TRUE, group |-> NoTestGroup, kview |-> NoUseKview]


\* A capture is removed before its report is written.
persist_remove_first(files, group, u, r, event, io) ==
    LET removed == remove_file(files, capture_name(u))
        created == create_file(removed, report_file(group, u, r, event, FALSE))
        written == create_file(removed, report_file(group, u, r, event, TRUE))
    IN  IF io = "remove" THEN [ok |-> FALSE, files |-> files]
        ELSE IF io = "create" THEN [ok |-> FALSE, files |-> removed]
        ELSE IF io = "write" THEN [ok |-> FALSE, files |-> created]
        ELSE [ok |-> TRUE, files |-> written]

\* The capture is left in place once the report is written.
persist_keep_capture(files, group, u, r, event, io) ==
    LET created == create_file(files, report_file(group, u, r, event, FALSE))
        written == create_file(files, report_file(group, u, r, event, TRUE))
    IN  IF io = "create" THEN [ok |-> FALSE, files |-> files]
        ELSE IF io = "write" THEN [ok |-> FALSE, files |-> created]
        ELSE IF io = "remove" THEN [ok |-> FALSE, files |-> written]
        ELSE [ok |-> TRUE, files |-> written]

\* ktest.rs 49-55: create the report file, write the report, remove the
\* capture; [ok, files] with ok = FALSE when the call io names failed
persist(files, group, u, r, event, io) ==
    LET created == create_file(files, report_file(group, u, r, event, FALSE))
        written == create_file(files, report_file(group, u, r, event, TRUE))
        removed == remove_file(written, capture_name(u))
    IN  IF io = "create" THEN [ok |-> FALSE, files |-> files]
        ELSE IF io = "write" THEN [ok |-> FALSE, files |-> created]
        ELSE IF io = "remove" THEN [ok |-> FALSE, files |-> written]
        ELSE [ok |-> TRUE, files |-> removed]

\* process_test_results: [result, fs, group, kview, struck] with result "skipped"
\* (Ok without reading anything), "ok" or "err"
process_test_results(fs, lines, args, event, u, r, io, moved) ==
    LET st == read_lines(fresh_statics, lines, 1)
        group == process_summary(st.group)
        out(result, fs1, g, struck) ==
            [result |-> result, fs |-> fs1, group |-> g, kview |-> st.kview,
             struck |-> struck]
        kept == persist(fs.files, group, u, r, event, io)
        final == process_final_json([fs EXCEPT !.files = kept.files], u, r, io,
                                    moved)
    IN  IF ~args.is_test \/ ~exists(fs.files, capture_name(u))
        THEN [result |-> "skipped", fs |-> fs, group |-> NoTestGroup,
              kview |-> NoUseKview, struck |-> FALSE]
        ELSE IF io = "open"
        THEN [result |-> "err", fs |-> fs, group |-> NoTestGroup,
              kview |-> NoUseKview, struck |-> TRUE]
        ELSE IF ~st.ok \/ ~st.group.set THEN out("err", fs, st.group, FALSE)
        ELSE IF ~kept.ok
        THEN out("err", [fs EXCEPT !.files = kept.files], group, TRUE)
        ELSE IF ~is_final_group(event)
        THEN out("ok", [fs EXCEPT !.files = kept.files], group, FALSE)
        ELSE IF ~final.ok THEN out("err", final.fs, group, final.struck)
        ELSE IF st.kview.value /\ io = "kview"
        THEN out("err", final.fs, group, TRUE)
        ELSE out("ok", final.fs, group, FALSE)

(***************************************************************************)
(* What a guest may write to its capture file.                             *)
(***************************************************************************)
HeaderK ==
    JsonObject(("test_group" :> JsonStr(<< "k" >>)) @@ ("test_count" :> JsonNum(1)))
Header0 ==
    JsonObject(("test_group" :> JsonStr(<< "0" >>)) @@ ("test_count" :> JsonNum(2))
               @@ ("use_kview" :> JsonBool(TRUE)))
ResultPass ==
    JsonObject(("test" :> JsonStr(<< "m", ":", ":", "a" >>))
               @@ ("result" :> JsonStr(Pass)) @@ ("cycle_count" :> JsonNum(10)))
ResultFail ==
    JsonObject(("test" :> JsonStr(<< "b" >>)) @@ ("result" :> JsonStr(Fail))
               @@ ("cycle_count" :> JsonNum(20))
               @@ ("location" :> JsonStr(<< "l" >>))
               @@ ("message" :> JsonStr(<< "x" >>)))
OtherLine == JsonObject("note" :> JsonNum(0))

\* nothing at all; a header alone; a header and its results; a result before
\* any header; a line that is not JSON; a second header; a foreign line first
Captures ==
    { << >>,
      << HeaderK >>,
      << Header0 >>,
      << HeaderK, ResultPass >>,
      << Header0, ResultPass, ResultFail >>,
      << ResultPass >>,
      << HeaderK, NotJson >>,
      << HeaderK, Header0 >>,
      << OtherLine, HeaderK >> }

(***************************************************************************)
(* One invocation of the runner (lib.rs run), step by step.  Invocations   *)
(* do not overlap: the next one starts when the process of the last one    *)
(* has ended (pc = "idle").                                                *)
(***************************************************************************)
NoFlags == [is_test |-> FALSE, no_ktest |-> FALSE, clean |-> FALSE]
NoEvent == [current_test_group |-> 0, total_test_groups |-> 0]
\* op: the step, how it ended ("ok", "skipped", "err": an Err, a panic or an
\* exit), and whether a file or process call was made to fail in it
Step(step, result, io) == [step |-> step, result |-> result, io |-> io]

\* Two processes may run invocations at once.  Of each: where it is inside
\* write_start_events, what its scans returned, whether the other process
\* appended a line since its last scan (stale), and whether any of its
\* invocations ran while the other process was running one (overlapped)
Procs == {1, 2}
NoProc ==
    [pc |-> "idle", is_start |-> FALSE, event |-> NoEvent, stale |-> FALSE,
     overlapped |-> FALSE]
NoProcs == [p \in Procs |-> NoProc]

Init ==
    /\ log = << >>
    /\ manifest \in Manifests
    /\ pc = "idle"
    /\ uuid = 0
    /\ flags = NoFlags
    /\ start_event = NoEvent
    /\ testing_exists = FALSE
    /\ testing_files = {}
    /\ archives = << >>
    /\ capture = << >>
    /\ TEST_GROUP = NoTestGroup
    /\ USE_KVIEW = NoUseKview
    /\ round = 0
    /\ everAborted = FALSE
    /\ faults = 0
    /\ op = Step("none", "ok", "none")
    /\ report = NoDocument
    /\ reloaded = NoTestGroupValue
    /\ procs = NoProcs

\* a call fails for a reason outside the program (disk, Docker, guest)
Fault(happens) ==
    /\ happens => faults < MaxFaults
    /\ faults' = IF happens THEN faults + 1 ELSE faults

\* the process ends: its arguments, its descriptor and its statics are gone,
\* and nothing reads its capture file again
Exit ==
    /\ pc' = "idle"
    /\ flags' = NoFlags
    /\ start_event' = NoEvent
    /\ capture' = << >>
    /\ TEST_GROUP' = NoTestGroup
    /\ USE_KVIEW' = NoUseKview

\* A failed step leaves the process where it is, instead of ending it.
AbortHang ==
    /\ UNCHANGED << pc, flags, start_event, capture, TEST_GROUP, USE_KVIEW >>
    /\ everAborted' = TRUE

\* the process ends before write_end_events returned
Abort ==
    /\ Exit
    /\ everAborted' = TRUE

\* lib.rs 20-25: a new process sets its UUID and writes the start events
WriteStartEvents ==
    /\ UNCHANGED aside
    /\ pc = "idle"
    /\ uuid < MaxInvocations
    /\ \E is_test \in BOOLEAN, no_ktest \in BOOLEAN, clean \in BOOLEAN,
          fail \in LogFailures :
          LET w == write_start_events(log, manifest, fail)
          IN  /\ Fault(fail # "none")
              /\ uuid' = uuid + 1
              /\ log' = w.log
              /\ round' = IF w.started THEN round + 1 ELSE round
              /\ IF w.ok
                 THEN /\ flags' = [is_test |-> is_test, no_ktest |-> no_ktest,
                                   clean |-> clean]
                      /\ start_event' = w.event
                      /\ pc' = "started"
                      /\ op' = Step("write_start_events", "ok", "none")
                      /\ UNCHANGED << capture, TEST_GROUP, USE_KVIEW, everAborted >>
                 ELSE /\ Abort
                      /\ op' = Step("write_start_events", "err",
                                    IF fail = "none" THEN "none" ELSE "failed")
    /\ UNCHANGED << manifest, testing_exists, testing_files, archives >>

\* lib.rs 27-29 and clean.rs: remove the build directory of the current
\* directory, which holds the log, the testing directory and the archives
\* when the runner was started in the workspace root
Clean ==
    /\ UNCHANGED aside
    /\ pc = "started"
    /\ flags.clean
    /\ \E in_root \in BOOLEAN :
          IF in_root
          THEN /\ log' = << >>
               /\ testing_exists' = FALSE
               /\ testing_files' = {}
               /\ archives' = << >>
          ELSE UNCHANGED << log, testing_exists, testing_files, archives >>
    /\ Abort
    /\ op' = Step("clean", "ok", "none")
    /\ UNCHANGED << manifest, uuid, round, faults >>

\* lib.rs 31: builder::build_image().unwrap()
BuildImage ==
    /\ UNCHANGED aside
    /\ pc = "started"
    /\ ~flags.clean
    /\ \E built \in BOOLEAN :
          /\ Fault(~built)
          /\ IF built
             THEN /\ pc' = "built"
                  /\ op' = Step("build_image", "ok", "none")
                  /\ UNCHANGED << flags, start_event, capture, TEST_GROUP,
                                  USE_KVIEW, everAborted >>
             ELSE /\ Abort
                  /\ op' = Step("build_image", "err", "failed")
    /\ UNCHANGED << log, manifest, uuid, testing_exists, testing_files, archives,
                    round >>

\* How qemu::run gets to the VM (qemu.rs 10-34): Docker is not running (exit
\* before anything is set up), setup_test_output fails, all is ready
SetupOutcomes == {"no_docker", "setup_err", "ready"}

\* How the VM run ends (qemu.rs 37-51): the docker command cannot be run, the
\* guest exits with the Failed code (process::exit), with Success, with
\* another code
QemuOutcomes == {"spawn_err", "failed", "success", "unknown"}

\* setup_test_output: create .build/testing and the empty capture file
setup_test_output(fs, u, r) ==
    [fs EXCEPT !.exists = TRUE, !.files = create_file(@, capture_file(u, r))]

\* lib.rs 32 and qemu.rs 10-34: up to the start of the VM
QemuSetup ==
    /\ UNCHANGED aside
    /\ pc = "built"
    /\ \E outcome \in SetupOutcomes :
          LET fs == [exists |-> testing_exists, files |-> testing_files,
                     archives |-> archives]
              fs1 == IF flags.is_test /\ outcome = "ready"
                     THEN setup_test_output(fs, uuid, round) ELSE fs
          IN  /\ Fault(outcome # "ready")
              /\ outcome = "setup_err" => flags.is_test
              /\ testing_exists' = fs1.exists
              /\ testing_files' = fs1.files
              /\ IF outcome = "ready"
                 THEN /\ pc' = "running"
                      /\ op' = Step("qemu_setup", "ok", "none")
                      /\ UNCHANGED << flags, start_event, capture, TEST_GROUP,
                                      USE_KVIEW, everAborted >>
                 ELSE /\ Abort
                      /\ op' = Step("qemu_setup", "err", "failed")
    /\ UNCHANGED << log, manifest, uuid, archives, round >>

\* qemu.rs 37-51 and lib.rs 32-33: run_qemu blocks until the container ends,
\* with no timeout; this step is its return.  The guest has written its
\* lines to the capture file; the container, which has the testing directory
\* as a read-write volume, may leave entries there or leave it without the
\* capture file (gone)
QemuRun ==
    /\ UNCHANGED aside
    /\ pc = "running"
    /\ \E outcome \in QemuOutcomes, written \in Captures, left \in Leftovers,
          gone \in BOOLEAN :
          LET booted == outcome \in {"failed", "success", "unknown"}
          IN  /\ Fault(outcome \notin {"success", "unknown"})
              /\ (written # << >>) => (flags.is_test /\ booted)
              /\ (left # {}) => (flags.is_test /\ booted)
              /\ gone => (flags.is_test /\ booted /\ written = << >> /\ left = {})
              /\ testing_files' = IF gone
                                  THEN remove_file(testing_files, capture_name(uuid))
                                  ELSE testing_files \cup left
              /\ IF outcome \in {"success", "unknown"}
                 THEN /\ pc' = "ran"
                      /\ capture' = written
                      /\ UNCHANGED << flags, start_event, TEST_GROUP, USE_KVIEW,
                                      everAborted >>
                 ELSE Abort
              /\ op' = Step("qemu_run",
                            IF outcome \in {"success", "unknown"} THEN "ok" ELSE "err",
                            IF outcome \in {"success", "unknown"} THEN "none"
                            ELSE "failed")
    /\ UNCHANGED << log, manifest, uuid, testing_exists, archives, round >>

\* The --no-ktest flag is not looked at.
ShouldIngestAnyTest == flags.is_test

\* lib.rs 35-38: the ingestion of a test run without --no-ktest
ShouldIngest == flags.is_test /\ ~flags.no_ktest

ProcessTestResults ==
    /\ UNCHANGED aside
    /\ pc = "ran"
    /\ ShouldIngest
    /\ \E io \in IoFailures :
       \E moved \in (IF io = "rename"
                     THEN SUBSET json_files(
                              persist(testing_files,
                                      process_summary(
                                          read_lines(fresh_statics, capture, 1).group),
                                      uuid, round, start_event, "none").files)
                     ELSE {{}}) :
          LET fs == [exists |-> testing_exists, files |-> testing_files,
                     archives |-> archives]
              p == process_test_results(fs, capture, flags, start_event, uuid,
                                        round, io, moved)
          IN  /\ io = "none" \/ p.struck
              /\ Fault(io # "none")
              /\ testing_exists' = p.fs.exists
              /\ testing_files' = p.fs.files
              /\ archives' = p.fs.archives
              /\ op' = Step("process_test_results", p.result,
                            IF io = "none" THEN "none" ELSE "failed")
              /\ IF p.result = "err"
                 THEN Abort
                 ELSE /\ pc' = "ingested"
                      /\ TEST_GROUP' = p.group
                      /\ USE_KVIEW' = p.kview
                      /\ UNCHANGED << flags, start_event, capture, everAborted >>
    /\ UNCHANGED << log, manifest, uuid, round >>

\* lib.rs 40-41: write the end events; the process ends
WriteEndEvents ==
    /\ UNCHANGED aside
    /\ pc = "ingested" \/ (pc = "ran" /\ ~ShouldIngest)
    /\ \E fail \in BOOLEAN :
          /\ fail => is_final_group(start_event)
          /\ Fault(fail)
          /\ IF fail
             THEN /\ UNCHANGED log
                  /\ everAborted' = TRUE
                  /\ op' = Step("write_end_events", "err", "failed")
             ELSE /\ log' = write_end_events(log, start_event)
                  /\ UNCHANGED everAborted
                  /\ op' = Step("write_end_events", "ok", "none")
    /\ Exit
    /\ UNCHANGED << manifest, uuid, testing_exists, testing_files, archives, round >>

Next ==
    \/ WriteStartEvents
    \/ Clean
    \/ BuildImage
    \/ QemuSetup
    \/ QemuRun
    \/ ProcessTestResults
    \/ WriteEndEvents

Spec == Init /\ [][Next]_vars

\* lib.rs 35-38: process_test_results, once called, returns (Ok or Err): it
\* has no loop but the one over the lines of the capture.  This is the step
\* of ProcessTestResults seen from the caller.
ProcessTestResultsReturns ==
    /\ pc = "ran"
    /\ ShouldIngest
    /\ pc' \in {"ingested", "idle"}

\* Once qemu::run has returned, the process goes on by itself: the
\* ingestion and write_end_events are plain sequential code (lib.rs 35-41).
\* Nothing makes the VM return (QemuRun), and nothing makes a user start
\* the next invocation.
SpecLive ==
    /\ Spec
    /\ WF_pc(ProcessTestResultsReturns)
    /\ WF_vars(WriteEndEvents)

(***************************************************************************)
(* The two scans applied to any log: the lines the runner writes, records  *)
(* of other kinds (some of which mention an event name in their text),     *)
(* and lines that are damaged.                                             *)
(***************************************************************************)
MaxLogLines == 3        \* lines of a log the scans are applied to

\* a line the runner does not write
ForeignRecord(json, text, current) ==
    [json |-> json, event |-> "Other", text |-> text,
     current_test_group |-> current, total_test_groups |-> -1]

ScanLines ==
    { TestRoundStartedEvent, TestRoundEndedEvent,
      TestGroupStartedEvent(0, 2), TestGroupStartedEvent(1, 2),
      TestGroupStartedEvent(-1, 2),
      ForeignRecord(TRUE, {}, -1),
      ForeignRecord(TRUE, {RoundStartedName}, -1),
      ForeignRecord(TRUE, {RoundEndedName}, -1),
      ForeignRecord(TRUE, {GroupStartedName}, -1),
      ForeignRecord(FALSE, {}, -1),
      ForeignRecord(FALSE, {GroupStartedName}, -1) }

RECURSIVE SeqsUpTo(_, _)
SeqsUpTo(S, n) ==
    IF n = 0 THEN {<< >>}
    ELSE SeqsUpTo(S, n - 1)
         \cup {Append(q, x) : q \in {p \in SeqsUpTo(S, n - 1) : Len(p) = n - 1},
                              x \in S}

InitScan ==
    /\ log \in SeqsUpTo(ScanLines, MaxLogLines)
    /\ manifest = [is_workspace |-> FALSE, members |-> -1]
    /\ pc = "idle"
    /\ uuid = 0
    /\ flags = NoFlags
    /\ start_event = NoEvent
    /\ testing_exists = FALSE
    /\ testing_files = {}
    /\ archives = << >>
    /\ capture = << >>
    /\ TEST_GROUP = NoTestGroup
    /\ USE_KVIEW = NoUseKview
    /\ round = 0
    /\ everAborted = FALSE
    /\ faults = 0
    /\ op = Step("none", "ok", "none")
    /\ report = NoDocument
    /\ reloaded = NoTestGroupValue
    /\ procs = NoProcs

\* is_start_of_test_round() on the log; op keeps what it returned
IsStartOfTestRound ==
    /\ UNCHANGED aside
    /\ op' = Step("is_start_of_test_round",
                  IF is_start_of_test_round(log) THEN "true" ELSE "false", "none")
    /\ UNCHANGED << log, manifest, pc, uuid, flags, start_event, testing_exists,
                    testing_files, archives, capture, TEST_GROUP, USE_KVIEW,
                    round, everAborted, faults >>

\* get_current_test_group() on the log; start_event keeps what it returned
GetCurrentTestGroup ==
    /\ UNCHANGED aside
    /\ start_event' = [current_test_group |-> get_current_test_group(log),
                       total_test_groups |-> 0]
    /\ op' = Step("get_current_test_group",
                  IF get_current_test_group(log) = Panicked THEN "err" ELSE "ok",
                  "none")
    /\ UNCHANGED << log, manifest, pc, uuid, flags, testing_exists, testing_files,
                    archives, capture, TEST_GROUP, USE_KVIEW, round, everAborted,
                    faults >>

NextScan == IsStartOfTestRound \/ GetCurrentTestGroup

SpecScan == InitScan /\ [][NextScan]_vars

(***************************************************************************)
(* The ingestion of one capture file, in the two stages of                 *)
(* process_test_results: the read loop over its lines, then the summary.   *)
(* The capture is any sequence of the lines below.                         *)
(***************************************************************************)
MaxCaptureLines == 4    \* lines of a capture file the ingestion is applied to

Skip == << "s", "k", "i", "p" >>

\* results in two more shapes: an outcome that is neither pass nor fail, a
\* second module
ResultSkip ==
    JsonObject(("test" :> JsonStr(<< "m", ":", ":", "c" >>))
               @@ ("result" :> JsonStr(Skip)) @@ ("cycle_count" :> JsonNum(30)))
ResultOtherModule ==
    JsonObject(("test" :> JsonStr(<< "n", ":", ":", "a" >>))
               @@ ("result" :> JsonStr(Pass)) @@ ("cycle_count" :> JsonNum(40)))
\* a header whose test_count is missing, a result whose cycle_count is a string
BadHeader == JsonObject("test_group" :> JsonStr(<< "k" >>))
BadResult ==
    JsonObject(("test" :> JsonStr(<< "m", ":", ":", "a" >>))
               @@ ("result" :> JsonStr(Pass))
               @@ ("cycle_count" :> JsonStr(<< "1" >>)))

IngestLines ==
    { HeaderK, Header0, ResultPass, ResultFail, ResultSkip, ResultOtherModule,
      OtherLine, NotJson, BadHeader, BadResult }

\* the first invocation of a round of two groups has run its VM
InitIngest ==
    /\ capture \in SeqsUpTo(IngestLines, MaxCaptureLines)
    /\ log = << TestRoundStartedEvent, TestGroupStartedEvent(0, 2) >>
    /\ manifest = [is_workspace |-> FALSE, members |-> -1]
    /\ pc = "ran"
    /\ uuid = 1
    /\ flags = [is_test |-> TRUE, no_ktest |-> FALSE, clean |-> FALSE]
    /\ start_event = [current_test_group |-> 0, total_test_groups |-> 2]
    /\ testing_exists = TRUE
    /\ testing_files = {capture_file(1, 1)}
    /\ archives = << >>
    /\ TEST_GROUP = NoTestGroup
    /\ USE_KVIEW = NoUseKview
    /\ round = 1
    /\ everAborted = FALSE
    /\ faults = 0
    /\ op = Step("qemu_run", "ok", "none")
    /\ report = NoDocument
    /\ reloaded = NoTestGroupValue
    /\ procs = NoProcs

\* ktest.rs 37-41: every line goes through process_json_line; the first Err
\* ends process_test_results
ReadLines ==
    /\ UNCHANGED aside
    /\ pc = "ran"
    /\ LET st == read_lines(fresh_statics, capture, 1)
       IN  /\ TEST_GROUP' = st.group
           /\ USE_KVIEW' = st.kview
           /\ pc' = IF st.ok THEN "read" ELSE "idle"
           /\ everAborted' = ~st.ok
           /\ op' = Step("read_lines", IF st.ok THEN "ok" ELSE "err", "none")
    /\ UNCHANGED << log, manifest, uuid, flags, start_event, testing_exists,
                    testing_files, archives, capture, round, faults >>

\* ktest.rs 43: process_summary, an Err when no header was read
ProcessSummary ==
    /\ UNCHANGED aside
    /\ pc = "read"
    /\ IF TEST_GROUP.set
       THEN /\ TEST_GROUP' = process_summary(TEST_GROUP)
            /\ pc' = "ingested"
            /\ op' = Step("process_summary", "ok", "none")
            /\ UNCHANGED everAborted
       ELSE /\ pc' = "idle"
            /\ everAborted' = TRUE
            /\ op' = Step("process_summary", "err", "none")
            /\ UNCHANGED TEST_GROUP
    /\ UNCHANGED << log, manifest, uuid, flags, start_event, testing_exists,
                    testing_files, archives, capture, USE_KVIEW, round, faults >>

\* ktest.rs 49-55: the report is written and the capture removed
Persist ==
    /\ pc = "ingested"
    /\ report' = serialize(TestGroupValue(TEST_GROUP))
    /\ testing_files' = persist(testing_files, TEST_GROUP, uuid, round,
                                start_event, "none").files
    /\ pc' = "persisted"
    /\ op' = Step("persist", "ok", "none")
    /\ UNCHANGED << log, manifest, uuid, flags, start_event, testing_exists,
                    archives, capture, TEST_GROUP, USE_KVIEW, round,
                    everAborted, faults, reloaded, procs >>

\* a reader of the report file (the Deserialize derive of the structs)
Reload ==
    /\ pc = "persisted"
    /\ reloaded' = deserialize(report)
    /\ pc' = "reloaded"
    /\ op' = Step("reload", "ok", "none")
    /\ UNCHANGED << log, manifest, uuid, flags, start_event, testing_exists,
                    testing_files, archives, capture, TEST_GROUP, USE_KVIEW,
                    round, everAborted, faults, report, procs >>

NextIngest == ReadLines \/ ProcessSummary \/ Persist \/ Reload

SpecIngest == InitIngest /\ [][NextIngest]_vars

(***************************************************************************)
(* The ingestion of a capture of one header and one result, whose test     *)
(* name is any string of letters and colons.                               *)
(***************************************************************************)
MaxNameLen == 7         \* characters of a test name

ResultNamed(name) ==
    JsonObject(("test" :> JsonStr(name)) @@ ("result" :> JsonStr(Pass))
               @@ ("cycle_count" :> JsonNum(10)))

InitNames ==
    /\ capture \in {<< HeaderK, ResultNamed(name) >> :
                       name \in SeqsUpTo({"a", ":"}, MaxNameLen)}
    /\ log = << TestRoundStartedEvent, TestGroupStartedEvent(0, 2) >>
    /\ manifest = [is_workspace |-> FALSE, members |-> -1]
    /\ pc = "ran"
    /\ uuid = 1
    /\ flags = [is_test |-> TRUE, no_ktest |-> FALSE, clean |-> FALSE]
    /\ start_event = [current_test_group |-> 0, total_test_groups |-> 2]
    /\ testing_exists = TRUE
    /\ testing_files = {capture_file(1, 1)}
    /\ archives = << >>
    /\ TEST_GROUP = NoTestGroup
    /\ USE_KVIEW = NoUseKview
    /\ round = 1
    /\ everAborted = FALSE
    /\ faults = 0
    /\ op = Step("qemu_run", "ok", "none")
    /\ report = NoDocument
    /\ reloaded = NoTestGroupValue
    /\ procs = NoProcs

SpecNames == InitNames /\ [][NextIngest]_vars

(***************************************************************************)
(* Two processes running invocations with no lock on the event log.        *)
(* write_start_events is four accesses to the log, each atomic by itself   *)
(* (a read of the whole file, an append of one line): the scan of          *)
(* is_start_of_test_round, the append of TestRoundStartedEvent, the scan   *)
(* of get_current_test_group in TestGroupStartedEvent::new, the append of  *)
(* the TestGroupStartedEvent line.  The steps of the other process may     *)
(* fall between any two of them.  The build, the VM run and the ingestion, *)
(* which do not touch the log, are not shown.                              *)
(***************************************************************************)
Other(p) == CHOOSE q \in Procs : q # p

\* the other process has appended a line: what this one has scanned is old
Outdated(ps, p) == [ps EXCEPT ![Other(p)].stale = TRUE]

InitOverlap ==
    /\ log = << >>
    /\ manifest \in {m \in Manifests : get_total_test_groups(m) # Panicked}
    /\ pc = "idle"
    /\ uuid = 0
    /\ flags = NoFlags
    /\ start_event = NoEvent
    /\ testing_exists = FALSE
    /\ testing_files = {}
    /\ archives = << >>
    /\ capture = << >>
    /\ TEST_GROUP = NoTestGroup
    /\ USE_KVIEW = NoUseKview
    /\ round = 0
    /\ everAborted = FALSE
    /\ faults = 0
    /\ op = Step("none", "ok", "none")
    /\ report = NoDocument
    /\ reloaded = NoTestGroupValue
    /\ procs = NoProcs

\* what no step of the two processes touches
fixed ==
    << manifest, pc, flags, start_event, testing_exists, testing_files,
       archives, capture, TEST_GROUP, USE_KVIEW, round, everAborted, faults,
       op, report, reloaded >>

\* event.rs 20: a new process scans for the start of a round
BeginIsStart(p) ==
    /\ procs[p].pc = "idle"
    /\ uuid < MaxInvocations
    /\ uuid' = uuid + 1
    /\ LET both == procs[Other(p)].pc # "idle"
           mine == [procs[p] EXCEPT !.pc = "round_scanned",
                                    !.is_start = is_start_of_test_round(log),
                                    !.event = NoEvent,
                                    !.stale = FALSE,
                                    !.overlapped = @ \/ both]
       IN  procs' = [procs EXCEPT ![p] = mine,
                                  ![Other(p)].overlapped = @ \/ both]
    /\ UNCHANGED log
    /\ UNCHANGED fixed

\* event.rs 20-23: TestRoundStartedEvent is appended if that scan said so
BeginWriteRound(p) ==
    /\ procs[p].pc = "round_scanned"
    /\ log' = IF procs[p].is_start THEN write_event(log, TestRoundStartedEvent)
              ELSE log
    /\ procs' = [(IF procs[p].is_start THEN Outdated(procs, p) ELSE procs)
                    EXCEPT ![p].pc = "round_done"]
    /\ UNCHANGED uuid
    /\ UNCHANGED fixed

\* event.rs 25, 160-167: TestGroupStartedEvent::new scans for the index
BeginNewEvent(p) ==
    /\ procs[p].pc = "round_done"
    /\ procs' = [procs EXCEPT
                    ![p].pc = "indexed",
                    ![p].stale = FALSE,
                    ![p].event =
                        [current_test_group |-> get_current_test_group(log),
                         total_test_groups |-> get_total_test_groups(manifest)]]
    /\ UNCHANGED << log, uuid >>
    /\ UNCHANGED fixed

\* event.rs 26: the TestGroupStartedEvent line is appended
BeginWriteGroup(p) ==
    /\ procs[p].pc = "indexed"
    /\ log' = write_event(log,
                          TestGroupStartedEvent(procs[p].event.current_test_group,
                                                procs[p].event.total_test_groups))
    /\ procs' = [Outdated(procs, p) EXCEPT ![p].pc = "begun"]
    /\ UNCHANGED uuid
    /\ UNCHANGED fixed

\* lib.rs 40-41, event.rs 32-39: write_end_events, and the process ends
EndEvents(p) ==
    /\ procs[p].pc = "begun"
    /\ log' = write_end_events(log, procs[p].event)
    /\ procs' = [(IF is_final_group(procs[p].event) THEN Outdated(procs, p)
                  ELSE procs) EXCEPT ![p].pc = "idle"]
    /\ UNCHANGED uuid
    /\ UNCHANGED fixed

NextOverlap ==
    \E p \in Procs :
        \/ BeginIsStart(p)
        \/ BeginWriteRound(p)
        \/ BeginNewEvent(p)
        \/ BeginWriteGroup(p)
        \/ EndEvents(p)

SpecOverlap == InitOverlap /\ [][NextOverlap]_vars

(***************************************************************************)
(* Rounds without end of the behaviour: invocations run one after another  *)
(* for as long as there are rounds to start.  Of an invocation only what   *)
(* it does to the log is kept: it begins its group, and then either        *)
(* reaches write_end_events or dies before (clean, build failure, VM       *)
(* failure, ingestion error).  The files are not shown.                    *)
(***************************************************************************)
MaxRounds == 2          \* rounds started in one behaviour
MaxAborts == 2          \* invocations that die before write_end_events

\* more lines than MaxRounds rounds with MaxAborts aborted invocations have
MaxRoundsLog == MaxRounds * (MaxMembers + 4) + 2 * MaxAborts

InitRounds ==
    /\ log = << >>
    /\ manifest \in {m \in Manifests : get_total_test_groups(m) # Panicked}
    /\ pc = "idle"
    /\ uuid = 0
    /\ flags = NoFlags
    /\ start_event = NoEvent
    /\ testing_exists = FALSE
    /\ testing_files = {}
    /\ archives = << >>
    /\ capture = << >>
    /\ TEST_GROUP = NoTestGroup
    /\ USE_KVIEW = NoUseKview
    /\ round = 0
    /\ everAborted = FALSE
    /\ faults = 0
    /\ op = Step("none", "ok", "none")
    /\ report = NoDocument
    /\ reloaded = NoTestGroupValue
    /\ procs = NoProcs

\* what an invocation, seen by its log accesses alone, leaves as it is
unseen ==
    << manifest, uuid, flags, testing_exists, testing_files, archives, capture,
       TEST_GROUP, USE_KVIEW, report, reloaded, procs >>

\* lib.rs 24-25: write_start_events of a new invocation
RunBegins ==
    /\ pc = "idle"
    /\ Len(log) < MaxRoundsLog
    /\ is_start_of_test_round(log) => round < MaxRounds
    /\ \E fail \in LogFailures :
          LET w == write_start_events(log, manifest, fail)
          IN  /\ fail # "none" => faults < MaxAborts
              /\ log' = w.log
              /\ round' = IF w.started THEN round + 1 ELSE round
              /\ IF w.ok
                 THEN /\ pc' = "started"
                      /\ start_event' = w.event
                      /\ op' = Step("write_start_events", "ok", "none")
                      /\ UNCHANGED << faults, everAborted >>
                 ELSE /\ pc' = "idle"
                      /\ start_event' = NoEvent
                      /\ faults' = faults + 1
                      /\ everAborted' = TRUE
                      /\ op' = Step("write_start_events", "err", "failed")
    /\ UNCHANGED unseen

\* lib.rs 27-38: the process ends before write_end_events is called
RunAborts ==
    /\ pc = "started"
    /\ faults < MaxAborts
    /\ faults' = faults + 1
    /\ pc' = "idle"
    /\ start_event' = NoEvent
    /\ everAborted' = TRUE
    /\ op' = Step("run", "err", "failed")
    /\ UNCHANGED << log, round >>
    /\ UNCHANGED unseen

\* lib.rs 40-41: write_end_events, and the process ends
RunCompletes ==
    /\ pc = "started"
    /\ log' = write_end_events(log, start_event)
    /\ pc' = "idle"
    /\ start_event' = NoEvent
    /\ op' = Step("write_end_events", "ok", "none")
    /\ UNCHANGED << round, faults, everAborted >>
    /\ UNCHANGED unseen

NextRounds == RunBegins \/ RunAborts \/ RunCompletes

\* Invocations keep being run, and one that does not die reaches
\* write_end_events; the aborts are at most MaxAborts.
SpecRounds ==
    /\ InitRounds
    /\ [][NextRounds]_vars
    /\ WF_vars(RunBegins)
    /\ WF_vars(RunCompletes)

(***************************************************************************)
(* What the claims say of a log, read record by record (by the event kind  *)
(* of each line, not by its text).                                         *)
(***************************************************************************)
\* index of the last line whose kind is one of kinds, 0 when there is none
LastOf(lines, kinds) ==
    LET hits == {i \in 1..Len(lines) : lines[i].event \in kinds}
    IN  IF hits = {} THEN 0 ELSE CHOOSE i \in hits : \A j \in hits : j <= i

\* the most recent terminal marker is RoundStarted
RoundOpen(lines) ==
    LET i == LastOf(lines, {RoundStartedName, RoundEndedName})
    IN  i # 0 /\ lines[i].event = RoundStartedName

\* the index the next group gets
NextIndex(lines) ==
    LET i == LastOf(lines, {GroupStartedName, RoundEndedName})
    IN  IF i = 0 \/ lines[i].event = RoundEndedName THEN 0
        ELSE lines[i].current_test_group + 1

\* every line is a JSON record, and a GroupStarted record carries its index
WellFormed(lines) ==
    \A i \in 1..Len(lines) :
        /\ lines[i].json
        /\ lines[i].event = GroupStartedName => lines[i].current_test_group >= 0

IsGroupStarted(line) == line.event = GroupStartedName
IsRoundEnded(line) == line.event = RoundEndedName
IsRoundStarted(line) == line.event = RoundStartedName

(***************************************************************************)
(* Claims.                                                                 *)
(***************************************************************************)
\* index of the last GroupStarted or RoundEnded line before line j, 0 if none
PreviousGroupOrEnd(lines, j) ==
    LastOf(SubSeq(lines, 1, j - 1), {GroupStartedName, RoundEndedName})

\* C1: in every log the runner's invocations produce, aborted ones included,
\* a GroupStarted line that follows another GroupStarted line with no
\* RoundEnded between them carries the index of that line plus one, and the
\* first GroupStarted line after a RoundEnded line carries index 0.
C1_GroupIndexSteps ==
    \A j \in 1..Len(log) :
        (IsGroupStarted(log[j]) /\ PreviousGroupOrEnd(log, j) # 0) =>
            LET i == PreviousGroupOrEnd(log, j)
            IN  IF IsRoundEnded(log[i])
                THEN log[j].current_test_group = 0
                ELSE log[j].current_test_group = log[i].current_test_group + 1

\* an aborted invocation left a group behind, the next one in the same round
\* counted on from it, and a group was started after a round had ended
C1_Witness ==
    /\ everAborted
    /\ \E i, j \in 1..Len(log) :
          /\ IsGroupStarted(log[i]) /\ IsGroupStarted(log[j])
          /\ PreviousGroupOrEnd(log, j) = i
          /\ log[j].current_test_group = log[i].current_test_group + 1
    /\ \E i, j \in 1..Len(log) :
          /\ IsRoundEnded(log[i]) /\ IsGroupStarted(log[j])
          /\ PreviousGroupOrEnd(log, j) = i

\* the block of one round of n groups
RECURSIVE Groups(_, _)
Groups(k, n) ==
    IF k = 0 THEN << >>
    ELSE Append(Groups(k - 1, n), TestGroupStartedEvent(k - 1, n))

RoundBlock(n) ==
    << TestRoundStartedEvent >> \o Groups(n, n) \o << TestRoundEndedEvent >>

\* C2: while every invocation has run to completion, the log is a prefix of
\* repetitions of RoundStarted, GroupStarted{0,N} .. GroupStarted{N-1,N},
\* RoundEnded, where N is the constant number of groups of the workspace.
C2_RoundBlocks ==
    (~everAborted /\ get_total_test_groups(manifest) >= 1) =>
        LET n == get_total_test_groups(manifest)
        IN  \A i \in 1..Len(log) : log[i] = RoundBlock(n)[((i - 1) % (n + 2)) + 1]

\* a round of two groups was completed and the next round has begun
C2_Witness ==
    /\ ~everAborted
    /\ get_total_test_groups(manifest) = 2
    /\ Len(log) > 4
    /\ IsRoundEnded(log[4])
    /\ IsRoundStarted(log[5])

\* C3: on every log of well-formed records, is_round_start() is true when the
\* log holds no RoundStarted/RoundEnded record or the last of them is
\* RoundEnded, and false when the last of them is RoundStarted.
C3_IsRoundStart ==
    (op.step = "is_start_of_test_round" /\ WellFormed(log)) =>
        ((op.result = "true") <=> ~RoundOpen(log))

\* C4: on every log of well-formed records, current_group_index() is 0 when
\* the log holds no RoundEnded/GroupStarted record or the last of them is
\* RoundEnded, and k + 1 when the last of them is GroupStarted{k}.
C4_CurrentGroupIndex ==
    (op.step = "get_current_test_group" /\ WellFormed(log)) =>
        start_event.current_test_group = NextIndex(log)

\* C5: begin_group appends RoundStarted exactly when no round is open in the
\* log it finds, then one GroupStarted line carrying the next index and the
\* number of groups, and returns that index and that number.
C5_BeginGroup ==
    [][(pc = "idle" /\ pc' = "started") =>
          LET n == get_total_test_groups(manifest)
              k == NextIndex(log)
              found == IF RoundOpen(log) THEN log
                       ELSE Append(log, TestRoundStartedEvent)
          IN  /\ log' = Append(found, TestGroupStartedEvent(k, n))
              /\ start_event' = [current_test_group |-> k, total_test_groups |-> n]
      ]_vars

\* begin_group has opened a round: RoundStarted, then the GroupStarted it returned
C5_Witness ==
    /\ pc = "started"
    /\ Len(log) >= 2
    /\ IsRoundStarted(log[Len(log) - 1])
    /\ log[Len(log)] = TestGroupStartedEvent(start_event.current_test_group,
                                             start_event.total_test_groups)

\* C6: end_group appends one RoundEnded line when the descriptor's index + 1
\* reaches its total, and nothing otherwise.
C6_EndGroup ==
    [][(pc \in {"ran", "ingested"} /\ op'.step = "write_end_events"
        /\ op'.result = "ok") =>
          log' = IF start_event.current_test_group + 1
                        >= start_event.total_test_groups
                 THEN Append(log, TestRoundEndedEvent)
                 ELSE log
      ]_vars

\* end_group has ended a round
C6_Witness ==
    /\ op.step = "write_end_events"
    /\ op.result = "ok"
    /\ Len(log) > 0
    /\ IsRoundEnded(log[Len(log)])

\* every file of the testing directory and of the archives
AllFiles == testing_files \cup UNION {archives[i].files : i \in DOMAIN archives}

\* the complete reports the invocation u has persisted, wherever they are now
ReportsBy(u) ==
    {f \in AllFiles : f.kind = "report" /\ f.by = u /\ f.complete}

\* process_test_results has just run on a capture file that existed
Ingested == op.step = "process_test_results" /\ op.result # "skipped"

\* C7: whichever step of an ingesting invocation fails, its capture file is
\* gone only when its report has been written completely.
C7_CaptureOutlivesReport ==
    (Ingested /\ ~exists(testing_files, capture_name(uuid))) =>
        ReportsBy(uuid) # {}

\* the capture file was removed, and a later step of the ingestion failed
C7_Witness ==
    /\ Ingested
    /\ op.result = "err"
    /\ ~exists(testing_files, capture_name(uuid))
    /\ ReportsBy(uuid) # {}

\* C8: an ingestion that runs on an existing capture file, with no file or
\* process call failing, persists exactly one report, whatever the guest wrote.
C8_OneReportPerIngestion ==
    (Ingested /\ op.io = "none") => Cardinality(ReportsBy(uuid)) = 1

\* C9: the reports of the groups of one round go to different files: with no
\* call failing, a report persisted earlier in the round is still there, in
\* the testing directory or in an archive, once a later group has persisted
\* its own.
C9_ReportsOfARoundDistinct ==
    [][(pc = "ran" /\ pc' = "ingested" /\ faults' = 0) =>
          \A f \in testing_files :
              (f.kind = "report" /\ f.complete /\ f.round = round) =>
                  f \in AllFiles'
      ]_vars

\* the archives made in round r
ArchivesOf(r) == {i \in DOMAIN archives : archives[i].round = r}

\* C10: when RoundEnded is the last line of the log, exactly one archive was
\* made during the round it ends, and the testing directory is gone.
C10_OneArchivePerRound ==
    (Len(log) > 0 /\ IsRoundEnded(log[Len(log)])) =>
        /\ Cardinality(ArchivesOf(round)) = 1
        /\ ~testing_exists

\* the descriptor of the running invocation satisfies index + 1 >= total
FinalDescriptor ==
    start_event.current_test_group + 1 >= start_event.total_test_groups

\* a step has made a new archive directory
ArchiveCreated == Len(archives') > Len(archives)
\* a step has removed the testing directory
TestingRemoved == testing_exists /\ ~testing_exists'

\* C11 as stated: a step creates an archive directory or removes the testing
\* directory only in an invocation whose descriptor satisfies
\* index + 1 >= total.
C11_ArchiveOnlyWhenFinal_Original ==
    [][(ArchiveCreated \/ TestingRemoved) => (pc # "idle" /\ FinalDescriptor)]_vars

\* C11: a step creates an archive directory only in the ingestion of an
\* invocation whose descriptor satisfies index + 1 >= total, and the same
\* holds of a step that removes the testing directory, unless it is the clean
\* command removing the whole build directory.
C11_ArchiveOnlyWhenFinal ==
    [][/\ ArchiveCreated => (pc = "ran" /\ FinalDescriptor)
       /\ (TestingRemoved /\ op'.step # "clean") => (pc = "ran" /\ FinalDescriptor)
      ]_vars

\* a group that is not the last of its round has persisted its report: no
\* archive has been made in its round and the testing directory is still there
C11_Witness ==
    /\ pc = "ingested"
    /\ ~FinalDescriptor
    /\ ReportsBy(uuid) # {}
    /\ ReportsBy(uuid) \subseteq testing_files
    /\ testing_exists
    /\ ArchivesOf(round) = {}


\* the archive directory made last
LastArchive(as) == as[Len(as)]

\* the ingestion of the last group of a round returns Ok: its archive_round
\* has succeeded
ArchiveSucceeded ==
    /\ pc = "ran"
    /\ FinalDescriptor
    /\ op'.step = "process_test_results"
    /\ op'.result = "ok"

\* C12: after a successful archive_round, every *.json file that was in the
\* testing directory before the call (the files found there by the ingestion,
\* less the capture it has removed, and the report it has persisted) is in
\* the new archive directory under its name, and the testing directory is
\* gone.
C12_ArchiveHoldsEveryJsonFile ==
    [][ArchiveSucceeded =>
          /\ ArchiveCreated
          /\ \A f \in json_files(testing_files) :
                f.name # capture_name(uuid) =>
                    \E g \in LastArchive(archives').files : g.name = f.name
          /\ \E g \in LastArchive(archives').files :
                g.kind = "report" /\ g.by = uuid /\ g.complete
          /\ ~testing_exists'
          /\ testing_files' = {}
      ]_vars

\* an archive was made that holds the report of the last group and a *.json
\* file some earlier invocation had left in the testing directory
C12_Witness ==
    /\ op.step = "process_test_results"
    /\ op.result = "ok"
    /\ pc = "ingested"
    /\ FinalDescriptor
    /\ ~testing_exists
    /\ Len(archives) > 0
    /\ \E f, g \in LastArchive(archives).files :
          f.by = uuid /\ f.kind = "report" /\ g.by # uuid

\* C13: archive_round destroys nothing: every entry the ingestion of a last
\* group finds in the testing directory, its own capture apart, is in the
\* testing directory or in an archive afterwards, and the log and the
\* archives made before are as they were.
C13_ArchiveDestroysNothing ==
    [][(pc = "ran" /\ FinalDescriptor /\ op'.step = "process_test_results") =>
          /\ \A f \in testing_files :
                f.name # capture_name(uuid) =>
                    \E g \in AllFiles' : g.name = f.name /\ g.kind = f.kind
          /\ log' = log
          /\ SubSeq(archives', 1, Len(archives)) = archives
      ]_vars


(***************************************************************************)
(* What the claims say of a capture, read line by line.                    *)
(***************************************************************************)
\* the shape of a line: a header carries test_group, a result carries test
IsHeaderLine(l) == l.json /\ "test_group" \in DOMAIN l.obj
IsResultLine(l) == l.json /\ "test_group" \notin DOMAIN l.obj /\ "test" \in DOMAIN l.obj

\* not JSON, or a header or result line whose required field is missing or
\* of the wrong type
Malformed(l) ==
    \/ ~l.json
    \/ IsHeaderLine(l) /\ ~(IsStr(l, "test_group") /\ IsU64(l, "test_count"))
    \/ IsResultLine(l)
         /\ ~(IsStr(l, "test") /\ IsStr(l, "result") /\ IsU64(l, "cycle_count"))

WithoutMalformed(lines) == SelectSeq(lines, LAMBDA l : ~Malformed(l))

\* the capture less the header lines after its first line
WithoutLaterHeaders(lines) ==
    << Head(lines) >> \o SelectSeq(Tail(lines), LAMBDA l : ~IsHeaderLine(l))

\* the accumulator a header line allocates
Allocated(l) ==
    [set |-> TRUE, test_group |-> l.obj["test_group"].s,
     summary |-> [total |-> l.obj["test_count"].n, passed |-> 0, failed |-> 0,
                  ignored |-> 0],
     modules |-> << >>]

\* C14: when a capture of well-formed lines begins with a header line, the
\* read loop succeeds and leaves the accumulator it would leave without the
\* later header lines; when it holds header lines only, that is the
\* accumulator its first line allocates: total = test_count, the counts 0,
\* no modules.
C14_FirstHeaderOnly ==
    (/\ op.step = "read_lines"
     /\ capture # << >>
     /\ IsHeaderLine(capture[1])
     /\ \A i \in 1..Len(capture) : ~Malformed(capture[i])) =>
        /\ op.result = "ok"
        /\ TEST_GROUP = read_lines(fresh_statics, WithoutLaterHeaders(capture), 1).group
        /\ (\A i \in 1..Len(capture) : IsHeaderLine(capture[i])) =>
               TEST_GROUP = Allocated(capture[1])

\* C15: when the capture less its malformed lines is ingested without error
\* into an accumulator, so is the capture itself, and the accumulator is the
\* same.
C15_MalformedLinesSkipped ==
    (/\ op.step = "read_lines"
     /\ read_lines(fresh_statics, WithoutMalformed(capture), 1).ok
     /\ read_lines(fresh_statics, WithoutMalformed(capture), 1).group.set) =>
        /\ op.result = "ok"
        /\ TEST_GROUP = read_lines(fresh_statics, WithoutMalformed(capture), 1).group


\* the lines of the capture that are results with outcome r
ResultsWith(r) ==
    {i \in 1..Len(capture) : IsResultLine(capture[i]) /\ capture[i].obj["result"].s = r}

\* the test_count of the first header line of the capture
DeclaredTotal ==
    LET h == CHOOSE i \in 1..Len(capture) :
                 /\ IsHeaderLine(capture[i])
                 /\ \A j \in 1..(i - 1) : ~IsHeaderLine(capture[j])
    IN  capture[h].obj["test_count"].n

\* process_summary has returned Ok
Finalized == op.step = "process_summary" /\ op.result = "ok"

\* C18: finalize sets passed to the number of result lines whose outcome is
\* exactly "pass", failed to the number whose outcome is exactly "fail", and
\* ignored to max(0, total - (passed + failed)); it succeeds whenever there
\* is an accumulator, also when passed + failed exceeds the declared count.
C18_FinalizeCounts ==
    /\ Finalized =>
          LET passed == Cardinality(ResultsWith(Pass))
              failed == Cardinality(ResultsWith(Fail))
          IN  /\ TEST_GROUP.summary.total = DeclaredTotal
              /\ TEST_GROUP.summary.passed = passed
              /\ TEST_GROUP.summary.failed = failed
              /\ TEST_GROUP.summary.ignored =
                     IF DeclaredTotal > passed + failed
                     THEN DeclaredTotal - (passed + failed) ELSE 0
    /\ (op.step = "process_summary" /\ TEST_GROUP.set) => op.result = "ok"

\* finalize has counted a pass, a fail and an outcome that is neither, which
\* together exceed the declared count
C18_Witness ==
    /\ Finalized
    /\ ResultsWith(Pass) # {}
    /\ ResultsWith(Fail) # {}
    /\ ResultsWith(Skip) # {}
    /\ TEST_GROUP.summary.passed + TEST_GROUP.summary.failed > TEST_GROUP.summary.total
    /\ TEST_GROUP.summary.ignored = 0

\* C19 as stated: every finalized report has total = passed + failed + ignored.
C19_TotalIsSum_Original ==
    Finalized =>
        TEST_GROUP.summary.total =
            TEST_GROUP.summary.passed + TEST_GROUP.summary.failed
                + TEST_GROUP.summary.ignored

\* C19: every finalized report has total = passed + failed + ignored when
\* passed + failed does not exceed the declared count; when it does, ignored
\* is 0 and total is less than the sum.
C19_TotalIsSum ==
    Finalized =>
        LET sum == TEST_GROUP.summary.passed + TEST_GROUP.summary.failed
                       + TEST_GROUP.summary.ignored
            counted == Cardinality(ResultsWith(Pass)) + Cardinality(ResultsWith(Fail))
        IN  IF counted <= DeclaredTotal
            THEN TEST_GROUP.summary.total = sum
            ELSE TEST_GROUP.summary.ignored = 0 /\ TEST_GROUP.summary.total < sum

\* a report with an ignored test and a failed one was finalized
C19_Witness ==
    /\ Finalized
    /\ TEST_GROUP.summary.ignored > 0
    /\ TEST_GROUP.summary.failed > 0
    /\ TEST_GROUP.summary.total =
           TEST_GROUP.summary.passed + TEST_GROUP.summary.failed
               + TEST_GROUP.summary.ignored

\* the module name of the result line i of the capture
ModuleOf(i) == module_from_name(capture[i].obj["test"].s)
ResultIndices == {i \in 1..Len(capture) : IsResultLine(capture[i])}
\* the first result line of module m
FirstOf(m) ==
    CHOOSE i \in ResultIndices :
        ModuleOf(i) = m /\ \A j \in ResultIndices : ModuleOf(j) = m => i <= j
\* the results of module m as they arrived
ArrivedIn(m) ==
    LET sel == SelectSeq(capture,
                         LAMBDA l : IsResultLine(l)
                                      /\ module_from_name(l.obj["test"].s) = m)
    IN  [k \in 1..Len(sel) |->
            [process_test_json(sel[k]) EXCEPT !.test = function_from_name(@)]]

\* C20: after the read loop, no two buckets share a module name, every module
\* of a result line has its bucket, the buckets are in the order of the first
\* result line of their modules, and a bucket holds the results of its module
\* in the order they arrived.
C20_Buckets ==
    (op.step = "read_lines" /\ op.result = "ok" /\ TEST_GROUP.set) =>
        LET modules == TEST_GROUP.modules
        IN  /\ \A a, b \in 1..Len(modules) :
                  a # b => modules[a].module # modules[b].module
            /\ {modules[a].module : a \in 1..Len(modules)}
                  = {ModuleOf(i) : i \in ResultIndices}
            /\ \A a, b \in 1..Len(modules) :
                  a < b => FirstOf(modules[a].module) < FirstOf(modules[b].module)
            /\ \A a \in 1..Len(modules) :
                  modules[a].tests = ArrivedIn(modules[a].module)

\* two buckets, the first of which received a result after the second was made
C20_Witness ==
    /\ op.step = "read_lines"
    /\ op.result = "ok"
    /\ Len(TEST_GROUP.modules) = 2
    /\ Len(TEST_GROUP.modules[1].tests) = 2
    /\ \E i, j \in ResultIndices :
          /\ i < j
          /\ ModuleOf(i) = TEST_GROUP.modules[2].module
          /\ ModuleOf(j) = TEST_GROUP.modules[1].module


\* a line that does not parse as JSON, or a GroupStarted record without a
\* usable current_test_group
Damaged(line) ==
    \/ ~line.json
    \/ line.event = GroupStartedName /\ line.current_test_group < 0

\* a record of a kind the runner does not write
UnknownKind(line) == line.json /\ line.event \notin Markers

\* what the scan that was applied to the log has returned: 1 or 0 for the
\* true or false of is_start_of_test_round, the index or Panicked for
\* get_current_test_group
Returned ==
    IF op.step = "is_start_of_test_round"
    THEN IF op.result = "true" THEN 1 ELSE 0
    ELSE start_event.current_test_group

\* what the same scan returns on the log lines
ReturnsOn(lines) ==
    IF op.step = "is_start_of_test_round"
    THEN IF is_start_of_test_round(lines) THEN 1 ELSE 0
    ELSE get_current_test_group(lines)

Scanned == op.step \in {"is_start_of_test_round", "get_current_test_group"}

\* C16: is_round_start() and current_group_index() do not abort on a log
\* with damaged lines, and return what they return on the log less those
\* lines.
C16_DamagedLinesSkipped ==
    Scanned =>
        /\ op.result # "err"
        /\ Returned = ReturnsOn(SelectSeq(log, LAMBDA l : ~Damaged(l)))

\* C17: on a log of well-formed records, is_round_start() and
\* current_group_index() return what they return on the log less its records
\* of unknown kinds.
C17_UnknownRecordsTolerated ==
    (Scanned /\ WellFormed(log)) =>
        Returned = ReturnsOn(SelectSeq(log, LAMBDA l : ~UnknownKind(l)))


\* the test name of the one result line of the capture
GivenName == capture[2].obj["test"].s
\* is there a "::" in name at or after position from
SeparatorFrom(name, from) ==
    \E i \in from..(Len(name) - 1) : name[i] = ":" /\ name[i + 1] = ":"

\* C21: the bucket of a result carries the part of the test name before its
\* last "::" and the result the part after it, so that the two joined by "::"
\* give the name and no "::" begins after the one they are joined by; for a
\* name without "::" the bucket is "unknown" and the result carries the name.
C21_NameSplit ==
    (op.step = "read_lines" /\ op.result = "ok") =>
        LET module_name == TEST_GROUP.modules[1].module
            case_name == TEST_GROUP.modules[1].tests[1].test
        IN  IF SeparatorFrom(GivenName, 1)
            THEN /\ module_name \o << ":", ":" >> \o case_name = GivenName
                 /\ ~SeparatorFrom(GivenName, Len(module_name) + 2)
            ELSE /\ module_name = << "u", "n", "k", "n", "o", "w", "n" >>
                 /\ case_name = GivenName

\* a::a::a was split into a::a and a
C21_Witness ==
    /\ op.step = "read_lines"
    /\ op.result = "ok"
    /\ GivenName = << "a", ":", ":", "a", ":", ":", "a" >>
    /\ TEST_GROUP.modules[1].module = << "a", ":", ":", "a" >>
    /\ TEST_GROUP.modules[1].tests[1].test = << "a" >>


\* the running invocation's ingestion is to be skipped: not a test run, the
\* skip flag set, or no capture file
IngestionSkipped ==
    \/ ~flags.is_test
    \/ flags.no_ktest
    \/ \A f \in testing_files : f.name # capture_name(uuid)

\* C22: when ingestion is to be skipped, the step that follows the VM run
\* changes neither the testing directory nor the archives, and when that
\* step is the ingestion it returns Ok without having read anything.
C22_SkippedIngestionMutatesNothing ==
    [][(pc = "ran" /\ IngestionSkipped) =>
          /\ testing_exists' = testing_exists
          /\ testing_files' = testing_files
          /\ archives' = archives
          /\ op'.step = "process_test_results" => op'.result = "skipped"
      ]_vars

\* the ingestion of a last group found no capture file and returned Ok, the
\* testing directory still there
C22_Witness ==
    /\ op.step = "process_test_results"
    /\ op.result = "skipped"
    /\ pc = "ingested"
    /\ FinalDescriptor
    /\ testing_exists
    /\ archives = << >>


\* C23: a step of begin_group or end_group in which an access to the event
\* log fails ends the invocation there: begin_group has appended at most the
\* RoundStarted line it wrote before the failure and no GroupStarted line,
\* end_group has appended nothing, nothing else has changed, and the next
\* step is the start of another invocation.
C23_LogFailureIsFatal ==
    [][/\ (pc = "idle" /\ faults' # faults) =>
            /\ pc' = "idle"
            /\ everAborted'
            /\ log' = log \/ log' = Append(log, TestRoundStartedEvent)
            /\ UNCHANGED << testing_exists, testing_files, archives >>
       /\ (op'.step = "write_end_events" /\ faults' # faults) =>
            /\ pc' = "idle"
            /\ everAborted'
            /\ UNCHANGED << log, testing_exists, testing_files, archives >>
      ]_vars

\* begin_group failed after it had opened a round: RoundStarted is the last
\* line, and the invocation is over
C23_Witness ==
    /\ op = Step("write_start_events", "err", "failed")
    /\ pc = "idle"
    /\ everAborted
    /\ Len(log) > 0
    /\ IsRoundStarted(log[Len(log)])


\* C24: once the ingestion of a last group has archived the round, it
\* returns Ok whether the viewer could be started or not.
C24_ViewerDecoupled ==
    [][(/\ pc = "ran"
        /\ FinalDescriptor
        /\ op'.step = "process_test_results"
        /\ ArchiveCreated
        /\ ~testing_exists') => op'.result = "ok"
      ]_vars


\* the log before the step is a prefix of the log after it
LogExtended ==
    /\ Len(log') >= Len(log)
    /\ SubSeq(log', 1, Len(log)) = log

\* C26 as stated: every step of every invocation leaves the records written
\* before it unchanged and in place.
C26_AppendOnly_Original == [][LogExtended]_vars

\* C26: every step of every invocation other than the removal of the build
\* directory by the clean command leaves the records written before it
\* unchanged and in place, and a step that writes no event leaves the log as
\* it was.
C26_AppendOnly ==
    [][/\ op'.step # "clean" => LogExtended
       /\ op'.step \in {"build_image", "qemu_setup", "qemu_run",
                      "process_test_results"} => log' = log
      ]_vars

\* an invocation has written its end event after three earlier records
C26_Witness ==
    /\ op = Step("write_end_events", "ok", "none")
    /\ Len(log) >= 4
    /\ IsRoundEnded(log[Len(log)])


\* the record this invocation appended in begin_group is the last of the log
OwnGroupStartedLast ==
    /\ Len(log) > 0
    /\ IsGroupStarted(log[Len(log)])
    /\ log[Len(log)].current_test_group = start_event.current_test_group

\* the step appends RoundEnded
RoundEndedAppended ==
    /\ Len(log') = Len(log) + 1
    /\ IsRoundEnded(log'[Len(log')])

C30_TotalGroupsAtLeastOne ==
    [][(pc = "idle" /\ op'.step = "write_start_events" /\ faults' = faults) =>
           /\ op'.result = "ok"
           /\ start_event'.total_test_groups >= 1
           /\ start_event'.total_test_groups =
                  IF manifest.is_workspace THEN manifest.members + 1 ELSE 2
      ]_vars


\* C28: the TestGroup read back from a persisted report equals, field for
\* field, the one that was in memory when it was persisted; a result without
\* location or message has no such member in the file and none when read.
C28_PersistReloadRoundTrip ==
    /\ pc = "reloaded" => reloaded = TestGroupValue(TEST_GROUP)
    /\ pc \in {"persisted", "reloaded"} =>
          \A i \in 1..Len(TEST_GROUP.modules) :
              \A j \in 1..Len(TEST_GROUP.modules[i].tests) :
                  LET t == TEST_GROUP.modules[i].tests[j]
                      m == report.members["modules"].items[i]
                               .members["tests"].items[j].members
                  IN  /\ t.location = << >> <=> "location" \notin DOMAIN m
                      /\ t.message = << >> <=> "message" \notin DOMAIN m

\* a report with a result that has location and message and one that has
\* neither was persisted and read back
C28_Witness ==
    /\ pc = "reloaded"
    /\ \E i \in 1..Len(reloaded.modules) :
          \E j \in 1..Len(reloaded.modules[i].tests) :
              /\ reloaded.modules[i].tests[j].message # << >>
              /\ reloaded.modules[i].tests[j].location # << >>
    /\ \E i \in 1..Len(reloaded.modules) :
          \E j \in 1..Len(reloaded.modules[i].tests) :
              /\ reloaded.modules[i].tests[j].message = << >>
              /\ reloaded.modules[i].tests[j].location = << >>


\* the invocation is inside run_qemu, which has not returned
VmRunning == pc = "running"

\* C29: while the VM run has not returned the invocation does nothing else:
\* the only step it takes from there is the return of the VM run, no report
\* of it exists, the capture file of a test run is in place and its
\* GroupStarted is still the last record of the log; and once the VM run has
\* returned the invocation ends, with success or with an error.
C29_VmRunBlocks ==
    /\ [](VmRunning =>
            /\ ReportsBy(uuid) = {}
            /\ flags.is_test => exists(testing_files, capture_name(uuid))
            /\ OwnGroupStartedLast)
    /\ [][VmRunning =>
            /\ op'.step = "qemu_run"
            /\ UNCHANGED << log, archives, testing_exists >>]_vars
    /\ (pc \in {"ran", "ingested"}) ~> (pc = "idle")

\* the VM of a test run is running
C29_Witness ==
    /\ VmRunning
    /\ flags.is_test
    /\ op = Step("qemu_setup", "ok", "none")
    /\ exists(testing_files, capture_name(uuid))


\* two GroupStarted records of one index with no RoundEnded between them
DuplicateIndex(lines) ==
    \E i, j \in 1..Len(lines) :
        /\ i < j
        /\ IsGroupStarted(lines[i])
        /\ IsGroupStarted(lines[j])
        /\ lines[i].current_test_group = lines[j].current_test_group
        /\ \A k \in (i + 1)..(j - 1) : ~IsRoundEnded(lines[k])

\* both processes are at position at, and neither has appended a line since
\* the other's last scan
BothFresh(at) ==
    \A p \in Procs : procs[p].pc = at /\ ~procs[p].stale

\* C25: begin_group is not atomic.  Two processes that have both scanned for
\* the round start before either appended scanned the same answer, and two
\* that have both scanned for the index before either appended hold the same
\* index; what each appends is what it scanned, not what the log says when it
\* appends.  A group index that occurs twice in one round is in the log only
\* if invocations of the two processes overlapped.
C25_BeginGroupNotAtomic ==
    /\ [](BothFresh("round_scanned") => procs[1].is_start = procs[2].is_start)
    /\ [](BothFresh("indexed") =>
             procs[1].event.current_test_group = procs[2].event.current_test_group)
    /\ [][\A p \in Procs :
            /\ (procs[p].pc = "round_scanned" /\ procs'[p].pc = "round_done") =>
                  log' = IF procs[p].is_start
                         THEN Append(log, TestRoundStartedEvent) ELSE log
            /\ (procs[p].pc = "indexed" /\ procs'[p].pc = "begun") =>
                  log' = Append(log,
                                TestGroupStartedEvent(
                                    procs[p].event.current_test_group,
                                    procs[p].event.total_test_groups))
         ]_vars
    /\ [](DuplicateIndex(log) => \E p \in Procs : procs[p].overlapped)

\* two processes began a round together: both wrote RoundStarted, both wrote
\* GroupStarted with index 0
C25_Witness ==
    /\ \A p \in Procs : procs[p].pc = "begun" /\ procs[p].is_start
    /\ procs[1].event.current_test_group = procs[2].event.current_test_group
    /\ DuplicateIndex(log)
    /\ Cardinality({i \in 1..Len(log) : IsRoundStarted(log[i])}) = 2
    /\ Len(log) = 4


\* C31: every GroupStarted record of the log carries an index below its
\* total, in every log the runner's invocations produce, aborted ones
\* included.
C31_IndexBelowTotal ==
    \A i \in 1..Len(log) :
        IsGroupStarted(log[i]) =>
            log[i].current_test_group < log[i].total_test_groups


\* the terminal markers of a log, in order
Terminals(lines) ==
    SelectSeq(lines, LAMBDA l : IsRoundStarted(l) \/ IsRoundEnded(l))

\* C32: in every log the runner's invocations produce, aborted ones included,
\* the RoundStarted and RoundEnded records alternate, beginning with
\* RoundStarted, and every GroupStarted record has a RoundStarted before it
\* with no RoundEnded between the two.
C32_RoundMarkersAlternate ==
    /\ \A k \in 1..Len(Terminals(log)) :
          IF k % 2 = 1 THEN IsRoundStarted(Terminals(log)[k])
          ELSE IsRoundEnded(Terminals(log)[k])
    /\ \A i \in 1..Len(log) :
          IsGroupStarted(log[i]) => RoundOpen(SubSeq(log, 1, i))

\* a round with an aborted invocation in it was ended and the next begun
C32_Witness ==
    /\ everAborted
    /\ Len(Terminals(log)) >= 3
    /\ \E i \in 1..Len(log) :
          /\ IsGroupStarted(log[i])
          /\ log[i].current_test_group >= log[i].total_test_groups


\* C33: on every log the runner's invocations produce, aborted ones
\* included, the scan for the index returns 0 whenever the scan for the round
\* start returns true, and a RoundStarted record that is not the last line
\* is followed at once by GroupStarted with index 0.
C33_ScansAgree ==
    /\ ScanRound(log, Len(log)) => ScanGroup(log, Len(log)) = 0
    /\ \A i \in 1..(Len(log) - 1) :
          IsRoundStarted(log[i]) =>
              /\ IsGroupStarted(log[i + 1])
              /\ log[i + 1].current_test_group = 0

\* after an abort, a round has ended and the next one has begun with index 0
C33_Witness ==
    /\ everAborted
    /\ \E i \in 2..(Len(log) - 1) :
          /\ IsRoundEnded(log[i - 1])
          /\ IsRoundStarted(log[i])
          /\ IsGroupStarted(log[i + 1])
          /\ ScanRound(SubSeq(log, 1, i - 1), i - 1)


\* C34: a round that has been started is ended: whenever the last terminal
\* marker of the log is RoundStarted, a later log has RoundEnded as its last
\* terminal marker, whichever invocations of the round abort.
C34_RoundsEnd == RoundOpen(log) ~> ~RoundOpen(log)

\* a round in which invocations aborted, on the last index among others, has
\* been ended
C34_Witness ==
    /\ faults = MaxAborts
    /\ Len(log) > 0
    /\ IsRoundEnded(log[Len(log)])
    /\ \E i \in 1..Len(log) :
          /\ IsGroupStarted(log[i])
          /\ log[i].current_test_group >= log[i].total_test_groups


\* C35: every file an archive receives is a report written by an invocation
\* of the round that is ending: no capture file, and no report of an earlier
\* round.
C35_ArchiveHoldsOnlyRoundReports ==
    [][ArchiveCreated =>
          \A f \in LastArchive(archives').files :
              f.kind = "report" /\ f.round = round
      ]_vars


\* the capture has no header line before its first result line, or no header
\* line at all
HeaderMissing(lines) ==
    LET headers == {i \in 1..Len(lines) : IsHeaderLine(lines[i])}
        results == {i \in 1..Len(lines) : IsResultLine(lines[i])}
    IN  \/ headers = {}
        \/ \E r \in results : \A h \in headers : r < h

\* C36: the ingestion of a capture file that has no header when one is
\* needed returns an error and changes nothing: no report is written, the
\* capture file stays, no archive is made, the testing directory stays, and
\* the process ends with nothing appended to the log.
C36_MissingHeaderIsAnError ==
    [][(/\ pc = "ran"
        /\ op'.step = "process_test_results"
        /\ exists(testing_files, capture_name(uuid))
        /\ HeaderMissing(capture)) =>
           /\ op'.result = "err"
           /\ UNCHANGED << testing_files, testing_exists, archives, log >>
           /\ pc' = "idle"
      ]_vars

\* the ingestion of a last group has failed on what its capture holds, with
\* no file call failing: the capture file is there, no report, no archive,
\* and GroupStarted is still the last record
C36_Witness ==
    /\ op = Step("process_test_results", "err", "none")
    /\ ReportsBy(uuid) = {}
    /\ exists(testing_files, capture_name(uuid))
    /\ archives = << >>
    /\ Len(log) > 0
    /\ IsGroupStarted(log[Len(log)])
    /\ log[Len(log)].current_test_group + 1 >= log[Len(log)].total_test_groups


\* the capture is a well-formed header line followed by well-formed result
\* lines and nothing else
HeaderThenResults ==
    /\ Len(capture) >= 1
    /\ IsHeaderLine(capture[1])
    /\ test_group_json_ok(capture[1])
    /\ \A i \in 2..Len(capture) :
          IsResultLine(capture[i]) /\ test_json_ok(capture[i])

\* the places of all tests in the buckets: bucket a, position k
Places(modules) ==
    {<< a, k >> \in (1..Len(modules)) \X (1..MaxCaptureLines) :
        k <= Len(modules[a].tests)}

\* result line i as it is kept in a bucket
Kept(i) == [process_test_json(capture[i]) EXCEPT !.test = function_from_name(@)]

\* C37: the ingestion of a header line followed by well-formed result lines
\* succeeds; the buckets hold as many tests as there were result lines, every
\* result is in the bucket of its module and in no other, and after
\* finalize passed + failed is at most that number.
C37_NoResultLostOrDuplicated ==
    HeaderThenResults =>
        /\ op.step \in {"read_lines", "process_summary"} => op.result = "ok"
        /\ pc \in {"read", "ingested", "persisted", "reloaded"} =>
              LET modules == TEST_GROUP.modules
              IN  /\ Cardinality(Places(modules)) = Len(capture) - 1
                  /\ \A i \in 2..Len(capture) :
                        {a \in 1..Len(modules) :
                            \E k \in 1..Len(modules[a].tests) :
                                modules[a].tests[k] = Kept(i)}
                          = {a \in 1..Len(modules) :
                                modules[a].module = ModuleOf(i)}
                  /\ \A i \in 2..Len(capture) :
                        \E a \in 1..Len(modules) : modules[a].module = ModuleOf(i)
        /\ pc \in {"ingested", "persisted", "reloaded"} =>
              TEST_GROUP.summary.passed + TEST_GROUP.summary.failed
                  <= Len(capture) - 1

\* finalize has run on three results in two modules, one of them sent twice
C37_Witness ==
    /\ HeaderThenResults
    /\ pc = "ingested"
    /\ Len(capture) = 4
    /\ Len(TEST_GROUP.modules) = 2
    /\ \E i, j \in 2..4 : i # j /\ capture[i] = capture[j]


====
